---- MODULE Spec2Model ----
(***************************************************************************)
(* Model of src/client/mod.rs of aichat: the Client trait's shared policy  *)
(* (send_message, send_message_streaming), the three-way tokio::select!    *)
(* race of the streaming call, the backend registry (init_client,          *)
(* all_clients, create_client_config, list_models) and set_proxy.          *)
(*                                                                         *)
(* Strings are sequences of one-character strings.  An anyhow error is the *)
(* sequence of its messages, outermost context first, root cause last.     *)
(***************************************************************************)
EXTENDS Naturals, Sequences, FiniteSets, TLC

VARIABLES
    dry_run,      \* config.dry_run of the SharedConfig the client was built from
    role,         \* the part of the configuration echo_messages depends on
    abort,        \* the SharedAbortSignal of the handler: [ctrlc, ctrld]
    pc,           \* the synchronous caller: "idle", "running", "returned"
    op,           \* the entry point of the current / last call
    calls,        \* number of calls started so far
    content,      \* the content argument the caller passes to its calls
    result,       \* what the current / last call returned
    winner,       \* the select! branch whose handler ran in this call
    selStart,     \* the branch select! polls first in its first poll
    selPolled,    \* how many branches the first poll of select! has polled
    primary,      \* the primary future: [at, words, k, chunks]
    watcher,      \* the watch_abort future
    ctrlcTask,    \* the tokio::signal::ctrl_c() future
    sigint,       \* an interrupt was delivered to the listening ctrl_c future
    events,       \* the calls made on this call's ReplyStreamHandler, in order
    innerCalls,   \* invocations of the backend exchanges in this call
    innerRet,     \* what the backend exchange of this call returned
    abortedDuring, \* the abort signal became aborted while this call ran
    abortReaders, \* the futures of this call that have called abort.aborted()
    configLock,   \* read guards of the configuration: [held, taken] by this call
    clients,      \* config.clients: the kind of every configured entry
    model_info,   \* config.model_info: [client, index]
    probed,       \* the backend kinds init_client has probed, in order
    initPc,       \* init_client: "start", "openai_none", "none", "returned"
    initResult,   \* what init_client returned
    models,       \* the models each entry of config.clients offers, in its order
    listPos,      \* list_models: the position of the next entry of config.clients
    listed,       \* list_models: the ModelInfo collected so far
    proxy,        \* set_proxy: the explicit setting, <<>> (None) or <<value>>
    env,          \* the process environment: each variable is <<>> (unset) or <<value>>
    envReads,     \* the environment variables set_proxy looked up, in order
    proxyPc,      \* "start" / "returned"
    proxyResult,  \* what set_proxy returned
    created       \* create_client_config: the name asked for and what was returned

bridgeVars == <<dry_run, role, abort, pc, op, calls, content, result, winner,
                selStart, selPolled, primary, watcher, ctrlcTask, sigint,
                events, innerCalls, innerRet, abortedDuring, abortReaders,
                configLock>>
catalogVars == <<models, listPos, listed>>
proxyVars == <<proxy, env, envReads, proxyPc, proxyResult>>
registryVars == <<clients, model_info, probed, initPc, initResult, catalogVars,
                  proxyVars, created>>
vars == <<dry_run, role, abort, pc, op, calls, content, result, winner,
          selStart, selPolled, primary, watcher, ctrlcTask, sigint,
          events, innerCalls, innerRet, abortedDuring, abortReaders,
          configLock, clients, model_info, probed, initPc, initResult,
          catalogVars, proxyVars, created>>

----------------------------------------------------------------------------
(* Bounds of the model *)

MaxLen == 3
MaxCalls == 2
MaxChunks == 2
MaxClients == 2
MaxModels == 2

Chars == {"a", "b", " "}
Contents == UNION {[1..n -> Chars] : n \in 0..MaxLen}
Roles == {<<>>, <<"#">>}
BackendErrors == {"net", "proto"}
BackendChunk == <<"x">>
BackendReply == <<"r">>

----------------------------------------------------------------------------
(* anyhow::Result *)

NoResult == [status |-> "none", val |-> <<>>, err |-> <<>>]
Ok(v) == [status |-> "ok", val |-> v, err |-> <<>>]
Err(chain) == [status |-> "err", val |-> <<>>, err |-> chain]

with_context(r, ctx) ==
    IF r.status = "err" THEN Err(<<ctx>> \o r.err) ELSE r

----------------------------------------------------------------------------
(* Collaborators outside src/client/mod.rs *)

\* utils::split_text: the whitespace-delimited tokens of the text, in order.
RECURSIVE SplitFrom(_, _, _)
SplitFrom(s, i, cur) ==
    IF i > Len(s)
    THEN IF cur = <<>> THEN <<>> ELSE <<cur>>
    ELSE IF s[i] = " "
         THEN IF cur = <<>>
              THEN SplitFrom(s, i + 1, <<>>)
              ELSE <<cur>> \o SplitFrom(s, i + 1, <<>>)
         ELSE SplitFrom(s, i + 1, Append(cur, s[i]))

split_text(s) == SplitFrom(s, 1, <<>>)

\* Config::echo_messages: a fixed transform of the text under one configuration.
echo_messages(text) == role \o text

\* AbortSignal::aborted
aborted == abort.ctrlc \/ abort.ctrld

\* AbortSignal::set_ctrlc
set_ctrlc == [abort EXCEPT !.ctrlc = TRUE]

\* ReplyStreamHandler::text and ::done, as entries of the handler's log.
TextEvent(chunk, ok) == [kind |-> "text", data |-> chunk, ok |-> ok]
DoneEvent(ok) == [kind |-> "done", data |-> <<>>, ok |-> ok]

----------------------------------------------------------------------------
(* The futures of one streaming call *)

PrimaryInit == [at |-> "init", words |-> <<>>, k |-> 0, chunks |-> 0]
PrimaryDropped == [at |-> "dropped", words |-> <<>>, k |-> 0, chunks |-> 0]

\* Mutation of DropLosers: the losing futures are left alive (as detached
\* tasks would be) when the winner's handler runs.
KeepLosers ==
    [primary |-> primary, watcher |-> watcher, ctrlcTask |-> ctrlcTask]

\* select! drops the futures of the branches that did not complete before it
\* runs the winner's handler; block_on then drops the runtime.
DropLosers ==
    [primary |-> PrimaryDropped, watcher |-> "dropped", ctrlcTask |-> "dropped"]

\* init_tokio_runtime: the current-thread runtime, or the build error in context.
init_tokio_runtime(built) ==
    IF built THEN Ok(<<>>) ELSE with_context(Err(<<"build">>), "Failed to init tokio")

\* The first poll of select! polls the three branches once each, in cyclic
\* order from a start it picks; afterwards a branch is polled when it is woken.
BranchPrimary == 0
BranchAbort == 1
BranchCtrlC == 2

MayPoll(b) ==
    selPolled < 3 => b = (selStart + selPolled) % 3

Polled == IF selPolled < 3 THEN selPolled + 1 ELSE selPolled

\* Mutation of primary_branch: done is signalled ahead of the chunks of the
\* last poll instead of after them.
primary_branch_done_first(ev, ret, doneOk) ==
    [events |-> IF Len(ev) > Len(events)
                THEN Append(Append(events, DoneEvent(doneOk)), ev[Len(ev)])
                ELSE Append(ev, DoneEvent(doneOk)),
     result |-> IF doneOk
                THEN with_context(ret, "Failed to fetch stream")
                ELSE Err(<<"handler.done">>),
     abort  |-> abort]

\* The handler of the primary branch: handler.done()?, then ret in context.
primary_branch(ev, ret, doneOk) ==
    [events |-> Append(ev, DoneEvent(doneOk)),
     result |-> IF doneOk
                THEN with_context(ret, "Failed to fetch stream")
                ELSE Err(<<"handler.done">>),
     abort  |-> abort]

\* Mutation of abort_branch: the cancellation is reported to the caller as an
\* error.
abort_branch_as_error(doneOk) ==
    [events |-> Append(events, DoneEvent(doneOk)),
     result |-> Err(<<"aborted">>),
     abort  |-> abort]

\* Mutation of abort_branch: the handler returns Ok(()) without handler.done().
abort_branch_no_done(doneOk) ==
    [events |-> events, result |-> Ok(<<>>), abort |-> abort]

\* Mutation of abort_branch: the handler clears the abort signal it observed.
abort_branch_clears(doneOk) ==
    [events |-> Append(events, DoneEvent(doneOk)),
     result |-> IF doneOk THEN Ok(<<>>) ELSE Err(<<"handler.done">>),
     abort  |-> [ctrlc |-> FALSE, ctrld |-> FALSE]]

\* The handler of the watch_abort branch: handler.done()?, then Ok(()).
abort_branch(doneOk) ==
    [events |-> Append(events, DoneEvent(doneOk)),
     result |-> IF doneOk THEN Ok(<<>>) ELSE Err(<<"handler.done">>),
     abort  |-> abort]

\* Mutation of ctrlc_branch: the interrupt is recorded in the sub-state of
\* the explicit cancel request.
ctrlc_branch_sets_ctrld ==
    [events |-> events, result |-> Ok(<<>>),
     abort  |-> [abort EXCEPT !.ctrld = TRUE]]

\* The handler of the ctrl_c branch: abort.set_ctrlc(), then Ok(()).
ctrlc_branch ==
    [events |-> events, result |-> Ok(<<>>), abort |-> set_ctrlc]

\* A branch completed: its handler h runs and block_on returns its value.
Finish(w, h) ==
    /\ winner' = w
    /\ events' = h.events
    /\ result' = h.result
    /\ abort' = h.abort
    /\ pc' = "returned"
    /\ primary' = DropLosers.primary
    /\ watcher' = DropLosers.watcher
    /\ ctrlcTask' = DropLosers.ctrlcTask
    /\ selStart' = 0
    /\ selPolled' = 0

\* A branch was polled and is pending again.
Continue(p, w, c, ev) ==
    /\ primary' = p
    /\ watcher' = w
    /\ ctrlcTask' = c
    /\ events' = ev
    /\ selPolled' = Polled
    /\ UNCHANGED <<winner, result, abort, pc, selStart>>

\* No read guard of the configuration is held or was taken.
NoGuard == [held |-> 0, taken |-> 0]

\* self.get_config().read(): a read guard is taken.
read(lock) == [held |-> lock.held + 1, taken |-> lock.taken + 1]

\* Mutation of drop_guard: the guard is bound to a variable and lives on.
drop_guard_late(lock) == lock

\* The guard is a temporary: it is dropped at the end of the condition or of
\* the statement that took it.
drop_guard(lock) == [lock EXCEPT !.held = @ - 1]

\* self.get_config().read().dry_run
read_dry_run(lock) == drop_guard(read(lock))

\* self.get_config().read().echo_messages(..)
read_echo_messages(lock) == drop_guard(read(lock))

CallFrame == <<dry_run, role, op, calls, content, sigint, abortedDuring>>

----------------------------------------------------------------------------
(* Client::send_message *)

\* Mutation of send_message: the dry_run check is missing and the backend is
\* always asked.
send_message_without_dry_run ==
    /\ pc # "running"
    /\ calls < MaxCalls
    /\ calls' = calls + 1
    /\ op' = "send_message"
    /\ events' = <<>>
    /\ winner' = "none"
    /\ sigint' = FALSE
    /\ innerRet' = NoResult
    /\ abortedDuring' = FALSE
    /\ \E built \in BOOLEAN :
         LET rt == init_tokio_runtime(built) IN
         IF rt.status = "err"
         THEN /\ pc' = "returned"
              /\ result' = rt
              /\ innerCalls' = [single |-> 0, streaming |-> 0]
              /\ configLock' = NoGuard
         ELSE /\ pc' = "running"
              /\ result' = NoResult
              /\ innerCalls' = [single |-> 1, streaming |-> 0]
              /\ configLock' = NoGuard
    /\ abortReaders' = {}
    /\ UNCHANGED <<dry_run, role, content, abort, selStart, selPolled, primary,
                   watcher, ctrlcTask>>
    /\ UNCHANGED registryVars

send_message ==
    /\ pc # "running"
    /\ calls < MaxCalls
    /\ calls' = calls + 1
    /\ op' = "send_message"
    /\ events' = <<>>
    /\ winner' = "none"
    /\ sigint' = FALSE
    /\ innerRet' = NoResult
    /\ abortedDuring' = FALSE
    /\ \E built \in BOOLEAN :
         LET rt == init_tokio_runtime(built) IN
         IF rt.status = "err"
         THEN /\ pc' = "returned"
              /\ result' = rt
              /\ innerCalls' = [single |-> 0, streaming |-> 0]
              /\ configLock' = NoGuard
         ELSE IF dry_run
         THEN /\ pc' = "returned"
              /\ result' = Ok(echo_messages(content))
              /\ innerCalls' = [single |-> 0, streaming |-> 0]
              /\ configLock' = read_echo_messages(read_dry_run(NoGuard))
         ELSE /\ pc' = "running"
              /\ result' = NoResult
              /\ innerCalls' = [single |-> 1, streaming |-> 0]
              /\ configLock' = read_dry_run(NoGuard)
    /\ abortReaders' = {}
    /\ UNCHANGED <<dry_run, role, content, abort, selStart, selPolled, primary,
                   watcher, ctrlcTask>>
    /\ UNCHANGED registryVars

\* send_message_inner(content).await completes; a failure gets the fetch context.
send_message_inner_returns ==
    /\ pc = "running"
    /\ op = "send_message"
    /\ \E r \in {Ok(BackendReply)} \cup {Err(<<e>>) : e \in BackendErrors} :
         /\ innerRet' = r
         /\ result' = with_context(r, "Failed to fetch")
    /\ pc' = "returned"
    /\ UNCHANGED <<dry_run, role, abort, op, calls, content, winner, selStart,
                   selPolled, primary, watcher, ctrlcTask, sigint, events,
                   innerCalls, abortedDuring, abortReaders, configLock>>
    /\ UNCHANGED registryVars

----------------------------------------------------------------------------
(* Client::send_message_streaming *)

send_message_streaming ==
    /\ pc # "running"
    /\ calls < MaxCalls
    /\ calls' = calls + 1
    /\ op' = "send_message_streaming"
    /\ events' = <<>>
    /\ winner' = "none"
    /\ sigint' = FALSE
    /\ innerCalls' = [single |-> 0, streaming |-> 0]
    /\ innerRet' = NoResult
    /\ abortedDuring' = FALSE
    /\ \E built \in BOOLEAN, start \in 0..2 :
         LET rt == init_tokio_runtime(built) IN
         IF rt.status = "err"
         THEN /\ pc' = "returned"
              /\ result' = rt
              /\ primary' = PrimaryDropped
              /\ watcher' = "dropped"
              /\ ctrlcTask' = "dropped"
              /\ selStart' = 0
              /\ selPolled' = 0
         ELSE /\ pc' = "running"
              /\ result' = NoResult
              /\ primary' = PrimaryInit
              /\ watcher' = "init"
              /\ ctrlcTask' = "init"
              /\ selStart' = start
              /\ selPolled' = 0
    /\ abortReaders' = {}
    /\ configLock' = NoGuard
    /\ UNCHANGED <<dry_run, role, content, abort>>
    /\ UNCHANGED registryVars

\* Mutation of dry_chunk: the word is delivered without the echo transform.
dry_chunk_raw(words, k) == words[k]

\* handler.text(&self.get_config().read().echo_messages(&word)): the chunk of
\* the k-th word.
dry_chunk(words, k) == echo_messages(words[k])

\* Mutation of PrimaryStartDry: the first word is already delivered before
\* the first 25 ms sleep.
PrimaryStartDry_no_pacing ==
    /\ primary.at = "init"
    /\ MayPoll(BranchPrimary)
    /\ dry_run
    /\ \E splitOk \in BOOLEAN, doneOk \in BOOLEAN :
         LET words == split_text(content) IN
         IF ~splitOk
         THEN Finish("primary", primary_branch(events, Err(<<"split_text">>), doneOk))
         ELSE IF words = <<>>
         THEN Finish("primary", primary_branch(events, Ok(<<>>), doneOk))
         ELSE Continue([at |-> "sleep", words |-> words, k |-> 1, chunks |-> 0],
                       watcher, ctrlcTask,
                       Append(events, TextEvent(dry_chunk(words, 1), TRUE)))
    /\ configLock' = read_dry_run(configLock)
    /\ UNCHANGED <<innerCalls, innerRet, abortReaders>>
    /\ UNCHANGED CallFrame
    /\ UNCHANGED registryVars

\* First poll of the primary future with dry_run set: split_text(content)?,
\* then the first 25 ms sleep, or completion when there is no word.
PrimaryStartDry ==
    /\ primary.at = "init"
    /\ MayPoll(BranchPrimary)
    /\ dry_run
    /\ \E splitOk \in BOOLEAN, doneOk \in BOOLEAN :
         LET words == split_text(content) IN
         IF ~splitOk
         THEN Finish("primary", primary_branch(events, Err(<<"split_text">>), doneOk))
         ELSE IF words = <<>>
         THEN Finish("primary", primary_branch(events, Ok(<<>>), doneOk))
         ELSE Continue([at |-> "sleep", words |-> words, k |-> 1, chunks |-> 0],
                       watcher, ctrlcTask, events)
    /\ configLock' = read_dry_run(configLock)
    /\ UNCHANGED <<innerCalls, innerRet, abortReaders>>
    /\ UNCHANGED CallFrame
    /\ UNCHANGED registryVars

\* The 25 ms sleep elapsed: handler.text(echo_messages(word))?, then the next
\* sleep, or return Ok(()) after the last word.
PrimaryDryWord ==
    /\ primary.at = "sleep"
    /\ MayPoll(BranchPrimary)
    /\ \E textOk \in BOOLEAN, doneOk \in BOOLEAN :
         LET ev == Append(events, TextEvent(dry_chunk(primary.words, primary.k), textOk)) IN
         IF ~textOk
         THEN Finish("primary", primary_branch(ev, Err(<<"handler.text">>), doneOk))
         ELSE IF primary.k = Len(primary.words)
         THEN Finish("primary", primary_branch(ev, Ok(<<>>), doneOk))
         ELSE Continue([primary EXCEPT !.k = @ + 1], watcher, ctrlcTask, ev)
    /\ configLock' = read_echo_messages(configLock)
    /\ UNCHANGED <<innerCalls, innerRet, abortReaders>>
    /\ UNCHANGED CallFrame
    /\ UNCHANGED registryVars

\* One poll of send_message_streaming_inner: it pushes a chunk to the handler
\* and stays pending, or completes with success or with a backend error.
BackendPoll ==
    \/ \E e \in BackendErrors, doneOk \in BOOLEAN :
            /\ Finish("primary", primary_branch(events, Err(<<e>>), doneOk))
            /\ innerRet' = Err(<<e>>)
    \/ \E doneOk \in BOOLEAN :
            /\ Finish("primary", primary_branch(events, Ok(<<>>), doneOk))
            /\ innerRet' = Ok(<<>>)
    \/ /\ primary.chunks < MaxChunks
       /\ \E textOk \in BOOLEAN, doneOk \in BOOLEAN :
            LET ev == Append(events, TextEvent(BackendChunk, textOk)) IN
            IF textOk
            THEN /\ Continue([at |-> "inner", words |-> <<>>, k |-> 0,
                              chunks |-> primary.chunks + 1], watcher, ctrlcTask, ev)
                 /\ UNCHANGED innerRet
            ELSE /\ Finish("primary", primary_branch(ev, Err(<<"handler.text">>), doneOk))
                 /\ innerRet' = Err(<<"handler.text">>)

\* First poll of the primary future without dry_run: the backend exchange is
\* invoked and polled once.
PrimaryStartInner ==
    /\ primary.at = "init"
    /\ MayPoll(BranchPrimary)
    /\ ~dry_run
    /\ innerCalls' = [innerCalls EXCEPT !.streaming = @ + 1]
    /\ \/ /\ Continue([at |-> "inner", words |-> <<>>, k |-> 0, chunks |-> 0],
                      watcher, ctrlcTask, events)
          /\ UNCHANGED innerRet
       \/ BackendPoll
    /\ configLock' = read_dry_run(configLock)
    /\ UNCHANGED abortReaders
    /\ UNCHANGED CallFrame
    /\ UNCHANGED registryVars

\* The backend exchange was woken and is polled again.
PrimaryPollInner ==
    /\ primary.at = "inner"
    /\ MayPoll(BranchPrimary)
    /\ BackendPoll
    /\ UNCHANGED <<innerCalls, abortReaders, configLock>>
    /\ UNCHANGED CallFrame
    /\ UNCHANGED registryVars

\* Mutation of watch_abort: the loop sleeps again without looking at the signal.
watch_abort_never_checks ==
    /\ watcher \in {"init", "sleeping"}
    /\ MayPoll(BranchAbort)
    /\ Continue(primary, "sleeping", ctrlcTask, events)
    /\ abortReaders' = abortReaders \cup {"watch_abort"}
    /\ UNCHANGED <<innerCalls, innerRet, configLock>>
    /\ UNCHANGED CallFrame
    /\ UNCHANGED registryVars

\* watch_abort is polled: at its start, or when its 100 ms sleep has elapsed.
watch_abort ==
    /\ watcher \in {"init", "sleeping"}
    /\ MayPoll(BranchAbort)
    /\ IF aborted
       THEN \E doneOk \in BOOLEAN : Finish("abort", abort_branch(doneOk))
       ELSE Continue(primary, "sleeping", ctrlcTask, events)
    /\ abortReaders' = abortReaders \cup {"watch_abort"}
    /\ UNCHANGED <<innerCalls, innerRet, configLock>>
    /\ UNCHANGED CallFrame
    /\ UNCHANGED registryVars

\* tokio::signal::ctrl_c() is polled: it starts listening (the registration
\* of the signal listener succeeds), or it was woken by an interrupt.
ctrl_c ==
    /\ MayPoll(BranchCtrlC)
    /\ \/ /\ ctrlcTask = "init"
          /\ Continue(primary, watcher, "listening", events)
       \/ /\ ctrlcTask = "listening"
          /\ sigint
          /\ Finish("interrupt", ctrlc_branch)
    /\ UNCHANGED <<innerCalls, innerRet, abortReaders, configLock>>
    /\ UNCHANGED CallFrame
    /\ UNCHANGED registryVars

----------------------------------------------------------------------------
(* The environment of a call *)

\* The process receives an interrupt while the ctrl_c future listens.
Interrupt ==
    /\ ctrlcTask = "listening"
    /\ ~sigint
    /\ sigint' = TRUE
    /\ UNCHANGED <<dry_run, role, abort, pc, op, calls, content, result, winner,
                   selStart, selPolled, primary, watcher, ctrlcTask, events,
                   innerCalls, innerRet, abortedDuring, abortReaders,
                   configLock>>
    /\ UNCHANGED registryVars

\* The handler / caller side requests cancellation (AbortSignal::set_ctrld).
set_ctrld ==
    /\ ~abort.ctrld
    /\ abort' = [abort EXCEPT !.ctrld = TRUE]
    /\ abortedDuring' = (abortedDuring \/ (pc = "running" /\ ~aborted))
    /\ UNCHANGED <<dry_run, role, pc, op, calls, content, result, winner,
                   selStart, selPolled, primary, watcher, ctrlcTask, sigint,
                   events, innerCalls, innerRet, abortReaders, configLock>>
    /\ UNCHANGED registryVars

\* The caller clears the signal between two calls (AbortSignal::reset).
reset ==
    /\ pc # "running"
    /\ aborted
    /\ abort' = [ctrlc |-> FALSE, ctrld |-> FALSE]
    /\ UNCHANGED <<dry_run, role, pc, op, calls, content, result, winner,
                   selStart, selPolled, primary, watcher, ctrlcTask, sigint,
                   events, innerCalls, innerRet, abortedDuring, abortReaders,
                   configLock>>
    /\ UNCHANGED registryVars

----------------------------------------------------------------------------
(* The backend registry: init_client *)

Kinds == {"openai", "localai"}
ClientNames == Kinds \cup {"azure", "palm"}

InitNone == [status |-> "none", client |-> "", errClient |-> "", errIndex |-> 0]
InitOk(kind) == [status |-> "ok", client |-> kind, errClient |-> "", errIndex |-> 0]

\* OpenAIClient::init / LocalAIClient::init: Some(client) when the configuration
\* selects this kind, by name and by the entry model_info.index points at.
Selects(kind) ==
    /\ model_info.client = kind
    /\ model_info.index < Len(clients)
    /\ clients[model_info.index + 1] = kind

\* Mutation of unknown_client_error: the message gives the number of
\* configured entries in place of the index of the selected one.
unknown_client_error_len ==
    [status |-> "err", client |-> "",
     errClient |-> model_info.client, errIndex |-> Len(clients)]

\* anyhow!("Unknown client {} at config.clients[{}]", client, index)
unknown_client_error ==
    [status |-> "err", client |-> "",
     errClient |-> model_info.client, errIndex |-> model_info.index]

BridgeIdle ==
    /\ dry_run = FALSE
    /\ role = <<>>
    /\ abort = [ctrlc |-> FALSE, ctrld |-> FALSE]
    /\ pc = "idle"
    /\ op = "none"
    /\ calls = 0
    /\ content = <<>>
    /\ result = NoResult
    /\ winner = "none"
    /\ selStart = 0
    /\ selPolled = 0
    /\ primary = PrimaryDropped
    /\ watcher = "dropped"
    /\ ctrlcTask = "dropped"
    /\ sigint = FALSE
    /\ events = <<>>
    /\ innerCalls = [single |-> 0, streaming |-> 0]
    /\ innerRet = NoResult
    /\ abortedDuring = FALSE
    /\ abortReaders = {}
    /\ configLock = NoGuard

\* No catalog was requested: every entry offers nothing.
CatalogIdle ==
    /\ models = [i \in 1..Len(clients) |-> <<>>]
    /\ listPos = 0
    /\ listed = <<>>

\* set_proxy was not called; nothing is set in the environment.
ProxyIdle ==
    /\ proxy = <<>>
    /\ env = [HTTPS_PROXY |-> <<>>, ALL_PROXY |-> <<>>]
    /\ envReads = <<>>
    /\ proxyPc = "start"
    /\ proxyResult = NoResult

\* create_client_config was not called.
TemplateIdle == created = [name |-> "", result |-> NoResult]

\* OpenAIClient::init(config.clone())
probe_openai ==
    /\ initPc = "start"
    /\ probed' = Append(probed, "openai")
    /\ IF Selects("openai")
       THEN initResult' = InitOk("openai") /\ initPc' = "returned"
       ELSE initResult' = initResult /\ initPc' = "openai_none"
    /\ UNCHANGED <<clients, model_info>>
    /\ UNCHANGED <<catalogVars, proxyVars, created>>
    /\ UNCHANGED bridgeVars

\* .or_else(|| LocalAIClient::init(config.clone()))
probe_localai ==
    /\ initPc = "openai_none"
    /\ probed' = Append(probed, "localai")
    /\ IF Selects("localai")
       THEN initResult' = InitOk("localai") /\ initPc' = "returned"
       ELSE initResult' = initResult /\ initPc' = "none"
    /\ UNCHANGED <<clients, model_info>>
    /\ UNCHANGED <<catalogVars, proxyVars, created>>
    /\ UNCHANGED bridgeVars

\* .ok_or_else(|| anyhow!(...))
unknown_client ==
    /\ initPc = "none"
    /\ initResult' = unknown_client_error
    /\ initPc' = "returned"
    /\ UNCHANGED <<clients, model_info, probed>>
    /\ UNCHANGED <<catalogVars, proxyVars, created>>
    /\ UNCHANGED bridgeVars

RegistryInit ==
    /\ BridgeIdle
    /\ clients \in UNION {[1..n -> Kinds] : n \in 1..MaxClients}
    /\ model_info \in {m \in [client : ClientNames, index : 0..(MaxClients - 1)] :
                          m.index < Len(clients)}
    /\ probed = <<>>
    /\ initPc = "start"
    /\ initResult = InitNone
    /\ CatalogIdle
    /\ ProxyIdle
    /\ TemplateIdle

\* OpenAIClient::name() / LocalAIClient::name()
OpenAIClient_name == "openai"
LocalAIClient_name == "localai"

\* Mutation of all_clients: the kinds are listed in the opposite order.
all_clients_reversed == <<LocalAIClient_name, OpenAIClient_name>>

\* all_clients()
all_clients == <<OpenAIClient_name, LocalAIClient_name>>

\* OpenAIClient::create_config() / LocalAIClient::create_config(): the
\* configuration template of one kind.
create_config(kind) == Ok(<<"clients: - type:", kind>>)

\* bail!("Unknown client {}", &client)
unknown_config_error(client) == Err(<< <<"Unknown client", client>> >>)

\* create_client_config(client)
create_client_config ==
    /\ \E client \in ClientNames :
          created' = [name |-> client,
                      result |-> IF client = OpenAIClient_name
                                 THEN create_config(OpenAIClient_name)
                                 ELSE IF client = LocalAIClient_name
                                 THEN create_config(LocalAIClient_name)
                                 ELSE unknown_config_error(client)]
    /\ UNCHANGED <<clients, model_info, probed, initPc, initResult>>
    /\ UNCHANGED <<catalogVars, proxyVars>>
    /\ UNCHANGED bridgeVars

RegistryNext ==
    \/ probe_openai
    \/ probe_localai
    \/ unknown_client
    \/ create_client_config

RegistrySpec == RegistryInit /\ [][RegistryNext]_vars

----------------------------------------------------------------------------
(* The model catalog: list_models *)

\* What one model of a backend entry is configured with.
ModelSpecs == {[name |-> "gpt-a", max_tokens |-> 4], [name |-> "gpt-b", max_tokens |-> 8]}
ModelLists == UNION {[1..n -> ModelSpecs] : n \in 0..MaxModels}

\* ModelInfo::new(client, name, max_tokens, index)
ModelInfo_new(client, name, max_tokens, index) ==
    [client |-> client, name |-> name, max_tokens |-> max_tokens, index |-> index]

\* OpenAIClient::list_models(c, i) / LocalAIClient::list_models(c, i): the
\* models of one entry, in the entry's order, tagged with the index given.
kind_list_models(kind, offered, i) ==
    [j \in 1..Len(offered) |->
        ModelInfo_new(kind, offered[j].name, offered[j].max_tokens, i)]

\* Mutation of enumerate_index: positions are counted from one.
enumerate_index_from_one(pos) == pos + 1

\* .iter().enumerate(): the index paired with the entry at position pos.
enumerate_index(pos) == pos

\* One step of the flat_map over config.clients: the models of the next entry
\* are appended to the collection.
list_models ==
    /\ listPos < Len(clients)
    /\ listed' = listed \o kind_list_models(clients[listPos + 1], models[listPos + 1],
                                            enumerate_index(listPos))
    /\ listPos' = listPos + 1
    /\ UNCHANGED <<clients, model_info, probed, initPc, initResult, models>>
    /\ UNCHANGED <<proxyVars, created>>
    /\ UNCHANGED bridgeVars

CatalogInit ==
    /\ BridgeIdle
    /\ clients \in UNION {[1..n -> Kinds] : n \in 0..MaxClients}
    /\ model_info = [client |-> "openai", index |-> 0]
    /\ probed = <<>>
    /\ initPc = "start"
    /\ initResult = InitNone
    /\ models \in [1..Len(clients) -> ModelLists]
    /\ listPos = 0
    /\ listed = <<>>
    /\ ProxyIdle
    /\ TemplateIdle

CatalogNext == list_models

CatalogSpec == CatalogInit /\ [][CatalogNext]_vars

----------------------------------------------------------------------------
(* The proxy resolver: set_proxy *)

ValidUrls == {"http://p", "http://h", "http://a"}
ProxyStrings == ValidUrls \cup {"", "false", "-", "::"}
Options(S) == {<<>>} \cup {<<v>> : v \in S}

\* The builder handed to set_proxy: it has no proxy installed.
Builder == <<>>

\* builder.proxy(p)
builder_proxy(builder, p) == Append(builder, p)

\* Proxy::all(&proxy): the proxy for a string that is a URL, an error otherwise.
Proxy_all(p) == IF p \in ValidUrls THEN Ok(p) ELSE Err(<<"builder error">>)

\* format!("Invalid proxy `{proxy}`")
InvalidProxy(p) == <<"Invalid proxy", p>>

\* Mutation of is_opt_out: "-" is not an opt-out.
is_opt_out_no_dash(p) == p = "" \/ p = "false"

\* proxy.is_empty() || proxy == "false" || proxy == "-"
is_opt_out(p) == p = "" \/ p = "false" \/ p = "-"

\* builder.proxy(Proxy::all(&proxy).with_context(..)?); Ok(builder)
install_proxy(builder, p) ==
    LET parsed == with_context(Proxy_all(p), InvalidProxy(p))
    IN  IF parsed.status = "err" THEN parsed
        ELSE Ok(builder_proxy(builder, parsed.val))

\* set_proxy(builder, proxy): the result, and the environment lookups made.
\* env::var("HTTPS_PROXY").or_else(|_| env::var("ALL_PROXY")) looks ALL_PROXY
\* up only when HTTPS_PROXY is not set.
set_proxy ==
    /\ proxyPc = "start"
    /\ proxyPc' = "returned"
    /\ IF proxy # <<>>
       THEN /\ envReads' = <<>>
            /\ proxyResult' = IF is_opt_out(proxy[1]) THEN Ok(Builder)
                              ELSE install_proxy(Builder, proxy[1])
       ELSE IF env.HTTPS_PROXY # <<>>
       THEN /\ envReads' = <<"HTTPS_PROXY">>
            /\ proxyResult' = install_proxy(Builder, env.HTTPS_PROXY[1])
       ELSE IF env.ALL_PROXY # <<>>
       THEN /\ envReads' = <<"HTTPS_PROXY", "ALL_PROXY">>
            /\ proxyResult' = install_proxy(Builder, env.ALL_PROXY[1])
       ELSE /\ envReads' = <<"HTTPS_PROXY", "ALL_PROXY">>
            /\ proxyResult' = Ok(Builder)
    /\ UNCHANGED <<proxy, env>>
    /\ UNCHANGED <<clients, model_info, probed, initPc, initResult, catalogVars>>
    /\ UNCHANGED created
    /\ UNCHANGED bridgeVars

ProxyInit ==
    /\ BridgeIdle
    /\ clients = <<>>
    /\ model_info = [client |-> "openai", index |-> 0]
    /\ probed = <<>>
    /\ initPc = "start"
    /\ initResult = InitNone
    /\ CatalogIdle
    /\ proxy \in Options(ProxyStrings)
    /\ env \in [HTTPS_PROXY : Options(ProxyStrings), ALL_PROXY : Options(ProxyStrings)]
    /\ envReads = <<>>
    /\ proxyPc = "start"
    /\ proxyResult = NoResult
    /\ TemplateIdle

ProxyNext == set_proxy

ProxySpec == ProxyInit /\ [][ProxyNext]_vars

----------------------------------------------------------------------------
(* Specification of the calls on one constructed client *)

Init ==
    /\ dry_run \in BOOLEAN
    /\ role \in Roles
    /\ abort = [ctrlc |-> FALSE, ctrld |-> FALSE]
    /\ pc = "idle"
    /\ op = "none"
    /\ calls = 0
    /\ content \in Contents
    /\ result = NoResult
    /\ winner = "none"
    /\ selStart = 0
    /\ selPolled = 0
    /\ primary = PrimaryDropped
    /\ watcher = "dropped"
    /\ ctrlcTask = "dropped"
    /\ sigint = FALSE
    /\ events = <<>>
    /\ innerCalls = [single |-> 0, streaming |-> 0]
    /\ innerRet = NoResult
    /\ abortedDuring = FALSE
    /\ abortReaders = {}
    /\ configLock = NoGuard
    /\ clients = <<"openai">>
    /\ model_info = [client |-> "openai", index |-> 0]
    /\ probed = <<"openai">>
    /\ initPc = "returned"
    /\ initResult = InitOk("openai")
    /\ CatalogIdle
    /\ ProxyIdle
    /\ TemplateIdle

Next ==
    \/ send_message
    \/ send_message_inner_returns
    \/ send_message_streaming
    \/ PrimaryStartDry
    \/ PrimaryDryWord
    \/ PrimaryStartInner
    \/ PrimaryPollInner
    \/ watch_abort
    \/ ctrl_c
    \/ Interrupt
    \/ set_ctrld
    \/ reset

Spec == Init /\ [][Next]_vars

\* block_on polls the select! future whenever one of its branches is woken, and
\* a backend exchange eventually completes or fails (the backend's timeout).
FairSpec ==
    /\ Spec
    /\ WF_vars(PrimaryStartDry)
    /\ WF_vars(PrimaryDryWord)
    /\ WF_vars(PrimaryStartInner)
    /\ WF_vars(PrimaryPollInner)
    /\ WF_vars(watch_abort)
    /\ WF_vars(ctrl_c)

\* The first poll of select! polls every branch that is still there, in one
\* poll of block_on.
FirstPoll ==
    /\ selPolled < 3
    /\ (PrimaryStartDry \/ PrimaryStartInner \/ watch_abort \/ ctrl_c)

\* The first poll of select! completes and the 100 ms timer of watch_abort
\* fires; nothing is assumed about the backend exchange, the pacing of the
\* dry run or the interrupt.
WatcherFairSpec ==
    /\ Spec
    /\ WF_vars(FirstPoll)
    /\ WF_vars(watch_abort)

----------------------------------------------------------------------------
(* Properties of the streaming call *)

Streaming == op = "send_message_streaming"
Returned == pc = "returned"

DoneIdx == {i \in DOMAIN events : events[i].kind = "done"}
DoneCount == Cardinality(DoneIdx)

\* The chunks the handler accepted, in order.
RECURSIVE DeliveredOf(_)
DeliveredOf(ev) ==
    IF ev = <<>> THEN <<>>
    ELSE IF ev[1].kind = "text" /\ ev[1].ok
         THEN <<ev[1].data>> \o DeliveredOf(Tail(ev))
         ELSE DeliveredOf(Tail(ev))

Delivered == DeliveredOf(events)

\* C1: in every streaming call done is invoked at most once; when the call
\* returned through the primary branch or through the abort watcher it was
\* invoked exactly once, as the last thing done on the handler before the
\* return; when it returned through the interrupt branch it was not invoked.
C1_DoneOncePerCall ==
    /\ DoneCount <= 1
    /\ (Streaming /\ Returned /\ winner \in {"primary", "abort"})
          => /\ DoneCount = 1
             /\ events[Len(events)].kind = "done"
    /\ (Streaming /\ Returned /\ winner = "interrupt") => DoneCount = 0
    /\ (Streaming /\ pc = "running") => DoneCount = 0

C1_Witness ==
    /\ Streaming /\ Returned
    /\ winner = "abort"
    /\ DoneCount = 1
    /\ Len(Delivered) = 1

TasksDropped ==
    /\ primary = PrimaryDropped
    /\ watcher = "dropped"
    /\ ctrlcTask = "dropped"

C2_States ==
    Streaming =>
       /\ pc = "running" => winner = "none"
       /\ Returned => (winner = "none" <=> result = init_tokio_runtime(FALSE))
       /\ Returned => TasksDropped

C2_LosersStop ==
    (Streaming /\ winner # "none" /\ calls' = calls)
       => UNCHANGED <<winner, pc, result, events, primary, watcher, ctrlcTask,
                      innerCalls, innerRet>>

\* C2 as claimed: every streaming call that has returned reached one of the
\* three terminal states (a branch of the race ran its handler).
C2_Original ==
    (Streaming /\ Returned) => winner \in {"primary", "abort", "interrupt"}

\* C2, amended: a streaming call whose runtime was built is Running with no
\* winner, eventually returns, and has then exactly one winner among primary
\* (Completed), abort (Aborted) and interrupt (Interrupted), with the futures
\* of all branches dropped; from the moment a winner is chosen nothing of the
\* call changes any more.  A call whose runtime could not be built returns the
\* "Failed to init tokio" error with no winner.
C2_ExactlyOneTerminal ==
    /\ []C2_States
    /\ [][C2_LosersStop]_vars
    /\ ((Streaming /\ pc = "running") ~> Returned)

C2_Witness ==
    /\ Streaming /\ Returned
    /\ winner = "interrupt"
    /\ Len(Delivered) = 1
    /\ aborted

\* What a dry-run streaming call delivers when nothing cuts it short: the echo
\* of every whitespace-delimited token of the content, in input order.
ExpectedChunks ==
    [i \in 1..Len(split_text(content)) |-> role \o split_text(content)[i]]

IsPrefix(p, q) ==
    /\ Len(p) <= Len(q)
    /\ \A i \in 1..Len(p) : p[i] = q[i]

DoneIsLast == \A i \in DoneIdx : i = Len(events)

\* C3 as claimed, on the dry-run streaming calls that return success: the
\* handler received one chunk per token, in order, then exactly one done.
C3_Original ==
    (Streaming /\ dry_run /\ Returned /\ result.status = "ok")
       => /\ Delivered = ExpectedChunks
          /\ DoneCount = 1
          /\ DoneIsLast

\* C3, amended: a dry-run streaming call that the primary task wins and that
\* returns success delivered one chunk per token, in input order, followed by
\* exactly one done; in every dry-run streaming call the chunks delivered so
\* far are a prefix of that sequence and no chunk follows done.
C3_DryRunStream ==
    (Streaming /\ dry_run)
       => /\ IsPrefix(Delivered, ExpectedChunks)
          /\ DoneIsLast
          /\ (Returned /\ winner = "primary" /\ result.status = "ok")
                => /\ Delivered = ExpectedChunks
                   /\ Len(events) = Len(ExpectedChunks) + 1
                   /\ DoneCount = 1

C3_Witness ==
    /\ Streaming /\ dry_run /\ Returned
    /\ winner = "primary"
    /\ result.status = "ok"
    /\ Len(Delivered) = 2
    /\ Delivered[1] # Delivered[2]
    /\ role # <<>>

\* C4 as claimed: a streaming call during which the abort signal became
\* aborted (not dry-run) or the interrupt fired returns Ok.
C4_Original ==
    (Streaming /\ Returned /\ ((abortedDuring /\ ~dry_run) \/ sigint))
       => result.status = "ok"

\* C4, amended: when the interrupt watcher wins the race the call returns Ok;
\* when the abort watcher wins, the call returns what handler.done returned:
\* Ok when done succeeded, the error of done otherwise.  When the primary task
\* wins, a trigger that fired unobserved changes nothing: the call returns the
\* result of the exchange in fetch context, or the error of done.
C4_CancellationResult ==
    (Streaming /\ Returned)
       => /\ winner = "interrupt" => result = Ok(<<>>)
          /\ winner = "abort"
                => result = IF events[Len(events)].ok
                            THEN Ok(<<>>)
                            ELSE Err(<<"handler.done">>)
          /\ (winner = "primary" /\ ~dry_run)
                => result = IF events[Len(events)].ok
                            THEN with_context(innerRet, "Failed to fetch stream")
                            ELSE Err(<<"handler.done">>)

C4_Witness ==
    /\ Streaming /\ Returned /\ ~dry_run
    /\ abortedDuring
    /\ winner = "abort"
    /\ result = Ok(<<>>)

\* C5 as claimed: once the abort signal became aborted or the interrupt was
\* received during a streaming call, no step of that call delivers a chunk.
C5_Original ==
    [][(Streaming /\ pc = "running" /\ (abortedDuring \/ sigint) /\ calls' = calls)
          => Delivered' = Delivered]_vars

\* C5, amended: once the abort watcher has observed the aborted signal, or the
\* interrupt branch has been selected, no further chunk is delivered to the
\* handler of that call.
C5_NoChunkAfterWatcherWins ==
    [][(Streaming /\ winner \in {"abort", "interrupt"} /\ calls' = calls)
          => Delivered' = Delivered]_vars

C5_Witness ==
    /\ Streaming /\ Returned /\ ~dry_run
    /\ winner = "abort"
    /\ abortedDuring
    /\ Len(Delivered) = MaxChunks

FetchContext == IF Streaming THEN "Failed to fetch stream" ELSE "Failed to fetch"

BackendFailed ==
    /\ innerRet.status = "err"
    /\ innerRet.err[1] \in BackendErrors

\* C6: when the backend exchange of a non-dry-run call failed with a backend
\* error, the call returns that error as the cause with only the fetch
\* context added, and the exchange was invoked once.
C6_BackendErrorPreserved ==
    (Returned /\ ~dry_run /\ BackendFailed)
       => /\ result = Err(<<FetchContext>> \o innerRet.err)
          /\ innerCalls.single + innerCalls.streaming = 1

\* C7: within one streaming call nothing is delivered to the handler after
\* done: done, when invoked, is the last handler event.
C7_DoneIsLastEvent ==
    Streaming => DoneIsLast

C7_Witness ==
    /\ Streaming /\ Returned /\ ~dry_run
    /\ winner = "primary"
    /\ Len(Delivered) = 2
    /\ events[Len(events)].kind = "done"

C8_ReturnedIsQuiet ==
    (Returned /\ calls' = calls)
       => UNCHANGED <<pc, winner, result, events, primary, watcher, ctrlcTask,
                      innerCalls, innerRet>>

C8_NextCallIsFresh ==
    (calls' = calls + 1 /\ op' = "send_message_streaming" /\ pc' = "running")
       => /\ primary' = PrimaryInit
          /\ watcher' = "init"
          /\ ctrlcTask' = "init"
          /\ events' = <<>>
          /\ winner' = "none"

\* C8: after a call has returned, by whichever path, its primary future, its
\* abort watcher and its ctrl_c future are dropped and take no further step:
\* the handler's log of that call and its result no longer change, and the
\* next streaming call starts from fresh futures and an empty handler log.
C8_NothingOutlivesTheCall ==
    /\ [](Returned => TasksDropped)
    /\ [][C8_ReturnedIsQuiet]_vars
    /\ [][C8_NextCallIsFresh]_vars

C8_Witness ==
    /\ calls = 2
    /\ Streaming /\ pc = "running"
    /\ selPolled = 3
    /\ Len(Delivered) = 1
    /\ aborted

SingleCall == op = "send_message"

\* C9 as claimed: every send_message call made while dry_run is set returns
\* the echo of its content, and no dry-run call invokes a backend exchange.
C9_Original ==
    /\ (SingleCall /\ Returned /\ dry_run) => result = Ok(role \o content)
    /\ dry_run => innerCalls = [single |-> 0, streaming |-> 0]

\* C9, amended: a send_message call made while dry_run is set returns the
\* echo of its content when the runtime was built and the "Failed to init
\* tokio" error otherwise; no dry-run call, single or streaming, invokes a
\* backend exchange.
C9_DryRunEcho ==
    /\ (SingleCall /\ Returned /\ dry_run)
          => \/ result = Ok(role \o content)
             \/ result = Err(<<"Failed to init tokio", "build">>)
    /\ (SingleCall /\ dry_run) => pc # "running"
    /\ dry_run => /\ innerCalls = [single |-> 0, streaming |-> 0]
                  /\ innerRet = NoResult

C9_Witness ==
    /\ SingleCall /\ Returned /\ dry_run
    /\ role # <<>>
    /\ Len(content) = MaxLen
    /\ result = Ok(role \o content)

----------------------------------------------------------------------------
(* Properties of the registry *)

InitOrder == <<"openai", "localai">>

\* C10: init_client probes OpenAI, then LocalAI only when OpenAI did not
\* match; it returns the client of the first kind that matches, and fails
\* exactly when none matches, naming model_info.client and model_info.index.
C10_InitClient ==
    /\ IsPrefix(probed, InitOrder)
    /\ initPc = "returned"
          => /\ initResult.status \in {"ok", "err"}
             /\ initResult.status = "ok"
                   => /\ Selects(initResult.client)
                      /\ probed[Len(probed)] = initResult.client
                      /\ \A i \in 1..(Len(probed) - 1) : ~Selects(probed[i])
             /\ initResult.status = "err" <=> \A k \in Kinds : ~Selects(k)
             /\ initResult.status = "err"
                   => /\ probed = InitOrder
                      /\ initResult.errClient = model_info.client
                      /\ initResult.errIndex = model_info.index
    /\ initPc # "returned" => initResult = InitNone

C10_Witness ==
    /\ initPc = "returned"
    /\ initResult.status = "err"
    /\ initResult.errClient = "localai"
    /\ initResult.errIndex = 1
    /\ Len(clients) = 2

----------------------------------------------------------------------------
(* Properties of the model catalog *)

\* The names list_models returned for the entry at zero-based position e.
RECURSIVE NamesAt(_, _)
NamesAt(l, e) ==
    IF l = <<>> THEN <<>>
    ELSE IF l[1].index = e
         THEN <<l[1].name>> \o NamesAt(Tail(l), e)
         ELSE NamesAt(Tail(l), e)

OfferedNames(e) == [j \in 1..Len(models[e + 1]) |-> models[e + 1][j].name]

ListDone == listPos = Len(clients)

\* C11: list_models returns the concatenation, in configuration order, of
\* each entry's models in that entry's own order: every returned ModelInfo
\* carries the zero-based position of its owning entry and that entry's kind,
\* indices never decrease along the result, the names returned for an entry
\* are exactly the names it offers, in order, and an entry that offers no
\* model contributes nothing.
C11_ListModels ==
    ListDone
       => /\ \A p \in DOMAIN listed :
               /\ listed[p].index \in 0..(Len(clients) - 1)
               /\ listed[p].client = clients[listed[p].index + 1]
          /\ \A p, q \in DOMAIN listed : p < q => listed[p].index <= listed[q].index
          /\ \A e \in 0..(Len(clients) - 1) : NamesAt(listed, e) = OfferedNames(e)
          /\ \A e \in 0..(Len(clients) - 1) :
               models[e + 1] = <<>> => \A p \in DOMAIN listed : listed[p].index # e

C11_Witness ==
    /\ ListDone
    /\ clients = <<"localai", "openai">>
    /\ models[1] = <<>>
    /\ Len(models[2]) = 2
    /\ models[2][1].name # models[2][2].name
    /\ Len(listed) = 2
    /\ listed[1].index = 1

----------------------------------------------------------------------------
(* Properties of the proxy resolver *)

ProxyDisabled == proxyResult = Ok(Builder)

\* set_proxy used the value v: it installed the proxy parsed from v, or failed
\* with an error that names v when v is not a proxy URL.
ProxyUses(v) ==
    IF v \in ValidUrls
    THEN proxyResult = Ok(<<v>>)
    ELSE /\ proxyResult.status = "err"
         /\ proxyResult.err[1] = InvalidProxy(v)

\* C12: set_proxy returns the builder unchanged (no proxy installed) for the
\* explicit values "", "false" and "-" without looking at the environment; any
\* other explicit value installs the parsed proxy, or fails with an error
\* naming the value when it is not a proxy URL, again without looking at the
\* environment; with no explicit value it uses HTTPS_PROXY if set (ALL_PROXY
\* is then not looked up), otherwise ALL_PROXY if set, otherwise it returns
\* the builder unchanged.
C12_SetProxy ==
    proxyPc = "returned"
       => /\ proxy # <<>> /\ proxy[1] \in {"", "false", "-"}
               => ProxyDisabled /\ envReads = <<>>
          /\ proxy # <<>> /\ proxy[1] \notin {"", "false", "-"}
               => ProxyUses(proxy[1]) /\ envReads = <<>>
          /\ proxy = <<>> /\ env.HTTPS_PROXY # <<>>
               => ProxyUses(env.HTTPS_PROXY[1]) /\ envReads = <<"HTTPS_PROXY">>
          /\ proxy = <<>> /\ env.HTTPS_PROXY = <<>> /\ env.ALL_PROXY # <<>>
               => ProxyUses(env.ALL_PROXY[1])
          /\ proxy = <<>> /\ env.HTTPS_PROXY = <<>> /\ env.ALL_PROXY = <<>>
               => ProxyDisabled

C12_Witness ==
    /\ proxyPc = "returned"
    /\ proxy = <<"-">>
    /\ env.HTTPS_PROXY = <<"http://h">>
    /\ env.ALL_PROXY = <<"http://a">>
    /\ ProxyDisabled
    /\ envReads = <<>>

----------------------------------------------------------------------------
(* Properties of the configuration templates *)

Listed(name) == \E i \in DOMAIN all_clients : all_clients[i] = name

\* C13: create_client_config(name) returns the configuration template of the
\* kind for every name all_clients() lists and fails with "Unknown client"
\* (naming the name asked for) for every other name; all_clients() lists the
\* kinds in the order in which init_client probes them.
C13_CreateClientConfig ==
    /\ created.name # ""
          => /\ Listed(created.name) => created.result = create_config(created.name)
             /\ ~Listed(created.name)
                   => /\ created.result.status = "err"
                      /\ created.result.err[1] = <<"Unknown client", created.name>>
    /\ IsPrefix(probed, all_clients)

C13_Witness ==
    /\ created.name = "azure"
    /\ created.result.status = "err"
    /\ initPc = "returned"
    /\ probed = all_clients

----------------------------------------------------------------------------
(* Who writes and who reads the abort signal *)

StreamingRuns == pc = "running" /\ op = "send_message_streaming"

\* A step in which the execution bridge does nothing: no future is polled,
\* no handler runs and the call does not return.
BridgeQuiet ==
    UNCHANGED <<pc, result, winner, selStart, selPolled, primary, watcher,
                ctrlcTask, events, innerCalls, innerRet, abortReaders, configLock>>

OnlyWatcherReads == abortReaders \subseteq {"watch_abort"}

\* C14 as stated: while a streaming call runs, the abort signal is changed
\* only by the handler / caller side, never by a step of the bridge, and only
\* watch_abort reads it.
C14_Original ==
    /\ [][StreamingRuns /\ abort' # abort => BridgeQuiet]_vars
    /\ []OnlyWatcherReads

\* C14: while a streaming call runs, the abort signal has exactly two
\* writers, each writing its own sub-state: the handler / caller side sets
\* ctrld in a step in which the bridge does nothing, and the handler of the
\* bridge's own ctrl_c branch sets ctrlc as the call returns; the primary and
\* the watch_abort branch never change the signal, and watch_abort is the only
\* future that reads it.
C14_AbortSignalAccess ==
    /\ [][StreamingRuns /\ abort' # abort
            => \/ BridgeQuiet /\ abort' = [abort EXCEPT !.ctrld = TRUE]
               \/ /\ winner' = "interrupt"
                  /\ pc' = "returned"
                  /\ abort' = [abort EXCEPT !.ctrlc = TRUE]]_vars
    /\ []OnlyWatcherReads

C14_Witness ==
    /\ op = "send_message_streaming"
    /\ pc = "returned"
    /\ winner = "interrupt"
    /\ abortedDuring
    /\ abort = [ctrlc |-> TRUE, ctrld |-> TRUE]
    /\ abortReaders = {"watch_abort"}

----------------------------------------------------------------------------
(* The effect of the three handlers on the abort signal *)

StreamingReturns == StreamingRuns /\ pc' = "returned"

\* C15: when the ctrl_c branch wins, the step in which send_message_streaming
\* returns sets the ctrlc sub-state of the abort signal (and nothing else of
\* it) and the call returns Ok(()); every other step of the bridge, and so a
\* call won by the primary or by the watch_abort branch, leaves the abort
\* signal as it was.
C15_InterruptSetsCtrlc ==
    [][/\ StreamingReturns /\ winner' = "interrupt"
            => /\ abort' = [abort EXCEPT !.ctrlc = TRUE]
               /\ result' = Ok(<<>>)
       /\ StreamingReturns /\ winner' \in {"primary", "abort"} => abort' = abort
       /\ StreamingRuns /\ ~BridgeQuiet /\ pc' = "running" => abort' = abort]_vars

C15_Witness ==
    /\ op = "send_message_streaming"
    /\ pc = "returned"
    /\ winner = "interrupt"
    /\ ~abortedDuring
    /\ abort = [ctrlc |-> TRUE, ctrld |-> FALSE]
    /\ result = Ok(<<>>)
    /\ Len(events) > 0

----------------------------------------------------------------------------
(* Liveness of the cancellation *)

\* C16: a streaming call during which the abort signal is aborted (it stays
\* aborted while the call runs) eventually returns, under fairness of the
\* watch_abort loop alone: the backend exchange may stay pending for ever.
C16_AbortedCallReturns == (StreamingRuns /\ aborted) ~> Returned

C16_Witness ==
    /\ Streaming /\ Returned /\ ~dry_run
    /\ winner = "abort"
    /\ abortedDuring
    /\ innerCalls.streaming = 1
    /\ innerRet = NoResult
    /\ Delivered = <<>>

----------------------------------------------------------------------------
(* The read lock of the configuration *)

\* Every state of the model is a suspension point of the call (a future is
\* pending between two polls) or a state in which no call runs.
Suspended == pc = "running"

\* C17: the call holds no read guard of the configuration while it is
\* suspended (at the 25 ms sleep of the dry run, at the 100 ms sleep of
\* watch_abort, at the await on the backend exchange) nor after it returned,
\* and it takes one guard per access: one for the dry_run flag and one more
\* for every chunk the dry run has built.
C17_NoGuardAcrossSuspension ==
    /\ configLock.held = 0
    /\ Suspended /\ op = "send_message" => configLock.taken = 1
    /\ StreamingRuns /\ primary.at = "init" => configLock.taken = 0
    /\ StreamingRuns /\ primary.at = "inner" => configLock.taken = 1
    /\ StreamingRuns /\ primary.at = "sleep"
          => configLock.taken = 1 + Len(DeliveredOf(events))

C17_Witness ==
    /\ StreamingRuns
    /\ dry_run
    /\ primary.at = "sleep"
    /\ watcher = "sleeping"
    /\ Len(DeliveredOf(events)) = 1
    /\ configLock = [held |-> 0, taken |-> 2]

----------------------------------------------------------------------------
(* A dry-run streaming call that starts with the signal already aborted *)

HasToken == dry_run /\ Len(split_text(content)) >= 1

\* The step in which such a call starts.
StartsAborted ==
    /\ HasToken /\ aborted
    /\ op' = "send_message_streaming" /\ calls' = calls + 1

\* Such a call is running: the signal was aborted before it started.
RunsAborted == StreamingRuns /\ HasToken /\ aborted /\ ~abortedDuring

\* split_text(content)? fails at the first poll of the primary future, so
\* the call has no token.
SplitFails == primary.at = "init" /\ winner' = "primary"

----------------------------------------------------------------------------
(* A dry-run streaming call whose handler rejects a chunk *)

FailedTextIdx == {i \in DOMAIN events : events[i].kind = "text" /\ ~events[i].ok}

\* C19: in a dry-run streaming call in which handler.text failed, no text
\* follows the failed one, the chunks delivered before it are the preceding
\* tokens in order, done was invoked exactly once, and the call returned a
\* failure whose root cause is the error of handler.text.
C19_TextFailure ==
    (Streaming /\ dry_run /\ Returned /\ FailedTextIdx # {})
       => /\ \A i \in FailedTextIdx :
               /\ \A j \in DOMAIN events : j > i => events[j].kind # "text"
               /\ Len(Delivered) = i - 1
          /\ IsPrefix(Delivered, ExpectedChunks)
          /\ DoneCount = 1
          /\ result.status = "err"
          /\ result.err[Len(result.err)] = "handler.text"

====
